---- MODULE Spec2Model ----
(***************************************************************************)
(* Guestbook: the posting gate (createGuestbookEntry), the feed composer   *)
(* (getGuestbookEntries, getUserPosts) and the viewer-side ignore filter   *)
(* of the Home page, as a state machine.                                   *)
(***************************************************************************)
EXTENDS Integers, Sequences, FiniteSets, Bags, TLC

\* ---------------------------------------------------------------- bounds
\* Most messages the store holds in a run.
MaxMessages == 3
\* Most messages the store holds in a run of the posting gate alone.
MaxPosts == 2
\* Largest page number a feed request asks for.
MaxPage == 2
\* Largest page size (limit) a feed request asks for.
MaxLimit == 2
\* The updateIgnoredUsers calls in flight at once.
MaxInFlight == 2
\* Most messages posted on top of a guestbook of two pages.
MaxCachePosts == 1

\* ------------------------------------------------------ program constants
\* The page size Home asks for.
HomeLimit == 50
\* maxLength of a root message and of a reply; minLength of both.
RootMaxLength == 200
ReplyMaxLength == 1000
MinLength == 1

\* ------------------------------------------------------- JavaScript values
NULL == "<null>"
UNDEFINED == "<undefined>"

\* JavaScript truthiness of a string-or-null value.
Truthy(v) == v \notin {NULL, UNDEFINED, ""}

\* a || b
OrElse(a, b) == IF Truthy(a) THEN a ELSE b

\* --------------------------------------------------------------- identities
\* The rows of the user table (the identity provider's side of the join).
UserIds == {"u1", "u2", "u3"}

UserRow(uid) ==
    CASE uid = "u1" -> [username |-> "alice", displayUsername |-> "Ally", name |-> "Alice A"]
      [] uid = "u2" -> [username |-> "bob", displayUsername |-> NULL, name |-> "Bob B"]
      [] uid = "u3" -> [username |-> NULL, displayUsername |-> NULL, name |-> "Carol C"]

\* No session.
NoSession == NULL

\* What auth.api.getSession can return: no session, or a session of a user.
Sessions == {NoSession} \cup UserIds

\* String.prototype.toLowerCase on the labels that occur.
ToLowerCase(s) ==
    CASE s = "Ally" -> "ally"
      [] s = "ALLY" -> "ally"
      [] s = "Alice A" -> "alice a"
      [] s = "Bob B" -> "bob b"
      [] s = "Carol C" -> "carol c"
      [] OTHER -> s

\* process.env.CREATOR_USERNAME
CreatorUsernameEnv == "ALLY"

\* -------------------------------------------------------------------- texts
\* A text is its trimmed length, the count of surrounding whitespace
\* characters, and whether it holds a link or profanity.
Text(len, pad, link, profanity) ==
    [len |-> len, pad |-> pad, link |-> link, profanity |-> profanity]

\* String.prototype.trim
Trim(t) == [t EXCEPT !.pad = 0]

\* validateMessageContent(content, options): every violated rule, in rule order.
ValidationErrors(content, options) ==
    (IF Trim(content).len = 0 \/ Trim(content).len < options.minLength
        THEN <<"min_length">> ELSE <<>>)
    \o (IF Trim(content).len > options.maxLength THEN <<"max_length">> ELSE <<>>)
    \o (IF ~options.allowLinks /\ content.link THEN <<"links">> ELSE <<>>)
    \o (IF ~options.allowProfanity /\ content.profanity THEN <<"profanity">> ELSE <<>>)

validateMessageContent(content, options) ==
    LET errors == ValidationErrors(content, options)
    IN  [isValid |-> errors = <<>>,
         errors |-> errors,
         sanitizedContent |-> IF errors = <<>> THEN Trim(content) ELSE UNDEFINED]

\* A message string is the sequence of its pieces: Str("a") \o Str(", ") is "a, ".
Str(piece) == <<piece>>

\* A join that keeps the first element only.
JoinFirstOnly(arr, sep) == IF Len(arr) = 0 THEN <<>> ELSE Str(arr[1])

\* Array.prototype.join(sep) on an array of strings: one string.
RECURSIVE Join(_, _)
Join(arr, sep) ==
    IF Len(arr) = 0 THEN <<>>
    ELSE IF Len(arr) = 1 THEN Str(arr[1])
    ELSE Str(arr[1]) \o Str(sep) \o Join(Tail(arr), sep)

\* ---------------------------------------------------------------- state
VARIABLES
    store,          \* the guestbook table, in insertion order
    clock,          \* the latest creation timestamp handed out
    posted,         \* how many messages were ever posted successfully
    emailVerified,  \* the users whose emailVerified flag is set
    lastPost,       \* the last createGuestbookEntry call: arguments and outcome
    req,            \* the read request in flight, or the last one completed
    ignoredStore,   \* the preference store: each viewer's list of ignored labels
    session,        \* Home: the session of the viewer (useSession)
    currentPage,    \* Home: the page shown
    guestbookCache, \* Home: per page, the cached data of the ['guestbook', page] query
    stalePages,     \* Home: the pages whose ['guestbook', page] query is invalidated
    preferences,    \* Home: the data of the ['user-preferences'] query
    showIgnored,    \* Home: whether ignored users are shown
    updating,       \* Home: the bag of the lists of the updateIgnoredUsers calls in flight
    stalePrefs,     \* Home: the ['user-preferences'] query is invalidated
    written,        \* per viewer, the last write to the preference store: its list, and the list before it
    issuedOtp,      \* per user, the verification code that is valid now, or NULL
    showOtpInput,   \* Home: the code-entry step is shown
    otpSentDuringSignup, \* Home: the code on screen is the one sent at signup
    otp,            \* Home: the code typed
    otpLoading,     \* Home: a code request or submission is in flight
    otpError,       \* Home: the error shown in the verification panel
    otpCall,        \* Home: the authClient.emailOtp call in flight
    effectDue,      \* Home: the session changed and the effect has not run yet
    isLogin,        \* AuthForm: sign in (not sign up) is selected
    step,           \* AuthForm: 'auth' or 'verify'
    isLoading,      \* AuthForm: a submit or a re-send is in flight
    error,          \* AuthForm: the error shown
    usernameError,  \* AuthForm: the username error shown
    pendingVerification, \* AuthForm: a signup awaits its code
    formOtp,        \* AuthForm: the code typed (its otp state)
    authCall,       \* AuthForm: the authClient call in flight
    onSuccessCalled \* AuthForm: the submit in progress or last completed called onSuccess

\* The state of the mutations of Home and of what they invalidate.
mutVars == <<updating, stalePrefs, written>>

\* The state of the verification panel of Home.
otpVars == <<showOtpInput, otpSentDuringSignup, otp, otpLoading, otpError, otpCall,
             effectDue>>

\* The state of AuthForm.
authVars == <<isLogin, step, isLoading, error, usernameError, pendingVerification,
              formOtp, authCall, onSuccessCalled>>

\* The state of the verification flow.
verifyVars == <<issuedOtp, otpVars, authVars>>

homeVars == <<ignoredStore, session, currentPage, guestbookCache, stalePages,
              preferences,
              showIgnored, mutVars, verifyVars>>

vars == <<store, clock, posted, emailVerified, lastPost, req, homeVars>>

\* The ids the store hands out, in order (opaque, unique).
IdOf(n) == "m" \o ToString(n)

\* An id no message ever gets.
DanglingId == "zz"

StoredIds == {store[i].id : i \in 1..Len(store)}

NoPost == [called |-> FALSE]

NoReq == [phase |-> "idle"]

\* A query with no data yet (data is undefined).
NoData == [undefined |-> TRUE]

\* One maximum for every post, reply or not.
MaxLengthNoReplyBudget(replyToId) == RootMaxLength

\* const maxLength = replyToId ? 1000 : 200
MaxLengthFor(replyToId) == IF Truthy(replyToId) THEN ReplyMaxLength ELSE RootMaxLength

\* The options createGuestbookEntry validates a message with.
PostOptions(replyToId) ==
    [allowLinks |-> FALSE, allowProfanity |-> FALSE,
     maxLength |-> MaxLengthFor(replyToId), minLength |-> MinLength]

\* The row db.insert(guestbook).values({...}) adds; id and createdAt are the
\* table's defaults.
NewRow(message, userId, replyToId, createdAt) ==
    [id |-> IdOf(Len(store) + 1),
     message |-> message,
     userId |-> userId,
     replyToId |-> OrElse(replyToId, NULL),
     createdAt |-> createdAt]

\* createGuestbookEntry(message, replyToId) called under session s; ts is the
\* creation timestamp the store gives the row if one is inserted.
createGuestbookEntry(s, message, replyToId, ts) ==
    LET validation == validateMessageContent(message, PostOptions(replyToId))
        call == [called |-> TRUE, session |-> s, message |-> message,
                 replyToId |-> replyToId,
                 verified |-> s \in emailVerified]
    IN  /\ ts \in {clock, clock + 1}
        /\ IF s = NoSession
             THEN /\ lastPost' = call @@ [outcome |-> "Unauthenticated",
                        error |-> Str("You must be signed in to post a message")]
                  /\ UNCHANGED <<store, clock, posted>>
           ELSE IF ~validation.isValid
             THEN /\ lastPost' = call @@ [outcome |-> "ValidationFailed",
                        error |-> Join(validation.errors, ", ")]
                  /\ UNCHANGED <<store, clock, posted>>
           ELSE /\ store' = Append(store,
                        NewRow(validation.sanitizedContent, s, replyToId, ts))
                /\ clock' = ts
                /\ posted' = posted + 1
                /\ lastPost' = call @@ [outcome |-> "ok", error |-> <<>>]
        /\ UNCHANGED emailVerified

\* A typed code: its characters other than blanks, and whether blanks surround them.
Code(body, pad) == [body |-> body, pad |-> pad]

\* The code sent to a user at signup, and the code of a re-send after it.
SignupCode == "123456"

ResentCode == "654321"

\* No authClient call in flight.
NoCall == [kind |-> "none"]

\* The empty guestbook, with two of the three users verified.
InitServer ==
    /\ store = <<>>
    /\ clock = 0
    /\ posted = 0
    /\ emailVerified = {"u1", "u2"}
    /\ lastPost = NoPost
    /\ req = NoReq
    /\ ignoredStore = [v \in UserIds |-> <<>>]
    /\ issuedOtp = [u \in UserIds |-> IF u \in {"u1", "u2"} THEN NULL ELSE SignupCode]

\* Home as first rendered under session s: the useState initial values, no
\* query data yet.
InitHome(s) ==
    /\ session = s
    /\ currentPage = 1
    /\ guestbookCache = [page \in 1..MaxPage |-> NoData]
    /\ stalePages = {}
    /\ preferences = NoData
    /\ showIgnored = FALSE
    /\ updating = EmptyBag
    /\ stalePrefs = FALSE
    /\ written = [v \in UserIds |-> NoData]
    /\ showOtpInput = FALSE
    /\ otpSentDuringSignup = FALSE
    /\ otp = Code("", 0)
    /\ otpLoading = FALSE
    /\ otpError = ""
    /\ otpCall = NoCall
    /\ effectDue = TRUE
    /\ isLogin = TRUE
    /\ step = "auth"
    /\ isLoading = FALSE
    /\ error = ""
    /\ usernameError = ""
    /\ pendingVerification = FALSE
    /\ formOtp = Code("", 0)
    /\ authCall = NoCall
    /\ onSuccessCalled = FALSE

Init == InitServer /\ \E s \in Sessions : InitHome(s)

\* The server with no viewer signed in on the page.
InitSignedOut == InitServer /\ InitHome(NoSession)

\* ------------------------------------------------------------ input sets
\* Texts at the limits of the length rule, with and without the other violations.
PostTexts ==
    {Text(0, 0, FALSE, FALSE), Text(0, 1, FALSE, FALSE),
     Text(RootMaxLength, 0, FALSE, FALSE), Text(RootMaxLength, 1, FALSE, FALSE),
     Text(RootMaxLength + 1, 0, FALSE, FALSE), Text(ReplyMaxLength, 0, FALSE, FALSE),
     Text(ReplyMaxLength + 1, 0, FALSE, FALSE), Text(RootMaxLength, 0, TRUE, FALSE),
     Text(RootMaxLength + 1, 0, TRUE, TRUE), Text(ReplyMaxLength + 1, 0, FALSE, TRUE)}

\* The sessions that post in the posting-gate specification.
PostSessions == {NoSession, "u1", "u3"}

\* The replyToId argument: left out, empty, an existing id, an id of no message.
ReplyArgs == {UNDEFINED, "", DanglingId} \cup StoredIds

\* The server action called directly, under any session.
PostAny ==
    /\ Len(store) < MaxPosts
    /\ \E s \in PostSessions, t \in PostTexts, r \in ReplyArgs :
        createGuestbookEntry(s, t, r, clock + 1)
    /\ UNCHANGED <<req, homeVars>>

\* An invalidation that reaches the query of the page shown only.
invalidateGuestbookShownOnly ==
    /\ stalePages' = stalePages \cup {page \in {currentPage} : guestbookCache[page] # NoData}
    /\ req' = IF req.phase # "idle" /\ req.kind = "feed" /\ req.page = currentPage
                THEN NoReq ELSE req

\* onSuccess of createMessageMutation: invalidateQueries({ queryKey: ['guestbook'] })
\* matches the query of every page. Their cached data is marked stale, and a
\* fetch in flight is dropped to be started again.
invalidateGuestbook ==
    /\ stalePages' = {page \in 1..MaxPage : guestbookCache[page] # NoData}
    /\ req' = NoReq

\* Home.handleNewMessage: the form is rendered only for a verified session.
\* The mutation calls createGuestbookEntry and, when it resolves, onSuccess.
handleNewMessage(message) ==
    /\ session # NoSession
    /\ session \in emailVerified
    /\ createGuestbookEntry(session, message, UNDEFINED, clock + 1)
    /\ IF lastPost'.outcome = "ok"
         THEN invalidateGuestbook
         ELSE UNCHANGED <<stalePages, req>>
    /\ UNCHANGED <<ignoredStore, session, currentPage, guestbookCache, preferences,
                   showIgnored, mutVars, verifyVars>>

\* Home.handleReply: onReply is passed to an entry only for a verified session.
handleReply(messageId, replyText) ==
    /\ session # NoSession
    /\ session \in emailVerified
    /\ createGuestbookEntry(session, replyText, messageId, clock + 1)
    /\ IF lastPost'.outcome = "ok"
         THEN invalidateGuestbook
         ELSE UNCHANGED <<stalePages, req>>
    /\ UNCHANGED <<ignoredStore, session, currentPage, guestbookCache, preferences,
                   showIgnored, mutVars, verifyVars>>

\* NewMessageForm submits a text.
submitNewMessage ==
    /\ Len(store) < MaxPosts
    /\ \E t \in PostTexts : handleNewMessage(t)

\* The reply form of an entry submits a text.
submitReply ==
    /\ Len(store) < MaxPosts
    /\ \E t \in PostTexts, messageId \in StoredIds : handleReply(messageId, t)

NextPost == PostAny \/ submitNewMessage \/ submitReply

SpecPost == Init /\ [][NextPost]_vars

\* ------------------------------------------------------------ posting gate
\* The rules a text violates under the limits of a post with this replyToId,
\* told from the text alone.
IsReason(piece) == piece \in {"min_length", "max_length", "links", "profanity"}

Violates(rule, text, replyToId) ==
    CASE rule = "min_length" -> text.len < 1
      [] rule = "max_length" ->
            text.len > (IF replyToId \in {UNDEFINED, ""} THEN 200 ELSE 1000)
      [] rule = "links" -> text.link
      [] rule = "profanity" -> text.profanity

Rejected(text, replyToId) ==
    \E rule \in {"min_length", "max_length", "links", "profanity"} :
        Violates(rule, text, replyToId)

\* C1: a post under a session that is not verified fails with NotVerified and
\* inserts nothing, root message or reply.
C1_UnverifiedNeverInserts ==
    [][LET p == lastPost'
       IN  (p.called /\ p.session # NoSession /\ ~p.verified)
             => (p.outcome = "NotVerified" /\ store' = store)
      ]_vars

\* C2: the checks run in the order session, verification, validation, insert;
\* a failing call leaves the store unchanged; the store changes only by one
\* insert of the sanitized text, the session's user and the given replyToId,
\* made when every check passed.
C2_CheckOrder ==
    [][LET p == lastPost'
       IN  /\ (p.called /\ p.session = NoSession) => p.outcome = "Unauthenticated"
           /\ (p.called /\ p.session # NoSession /\ ~p.verified)
                => p.outcome = "NotVerified"
           /\ (p.called /\ p.session # NoSession /\ p.verified
                /\ Rejected(p.message, p.replyToId))
                => p.outcome = "ValidationFailed"
           /\ (p.called /\ p.outcome # "ok") => store' = store
           /\ store' # store =>
                /\ p.called /\ p.session # NoSession /\ p.verified
                /\ ~Rejected(p.message, p.replyToId)
                /\ Len(store') = Len(store) + 1
                /\ SubSeq(store', 1, Len(store)) = store
                /\ store'[Len(store')].message = [p.message EXCEPT !.pad = 0]
                /\ store'[Len(store')].userId = p.session
                /\ store'[Len(store')].replyToId =
                     (IF p.replyToId \in {UNDEFINED, ""} THEN NULL ELSE p.replyToId)
      ]_vars

\* C8: the maximum length depends only on whether the post is a reply: a text
\* with no other violation is accepted as a root message iff its length is at
\* most 200 and as a reply iff it is at most 1000, and is refused with a
\* length-violation reason otherwise.
C8_LengthLimitByKind ==
    (lastPost.called /\ lastPost.session # NoSession
        /\ lastPost.message.len >= 1
        /\ ~lastPost.message.link /\ ~lastPost.message.profanity)
    => LET limit == IF lastPost.replyToId \in {UNDEFINED, ""} THEN 200 ELSE 1000
       IN  IF lastPost.message.len <= limit
             THEN lastPost.outcome = "ok"
             ELSE /\ lastPost.outcome = "ValidationFailed"
                  /\ \E i \in DOMAIN lastPost.error : lastPost.error[i] = "max_length"

\* A text between the two limits was stored as a reply, and the same length
\* was just refused as a root message.
C8_Witness ==
    /\ \E i \in 1..Len(store) :
          /\ store[i].replyToId # NULL
          /\ store[i].message.len = 201
    /\ lastPost.called
    /\ lastPost.replyToId = UNDEFINED
    /\ lastPost.message = Text(201, 0, FALSE, FALSE)
    /\ lastPost.outcome = "ValidationFailed"

\* C9: every stored reply references a stored message.
C9_ReferentialInvariant ==
    \A i \in 1..Len(store) :
        store[i].replyToId # NULL => store[i].replyToId \in StoredIds

RuleOrder == <<"min_length", "max_length", "links", "profanity">>

RECURSIVE ArrangementsOf(_)
ArrangementsOf(positions) ==
    IF positions = {} THEN {<<>>}
    ELSE UNION {{<<i>> \o rest : rest \in ArrangementsOf(positions \ {i})} :
                    i \in positions}

RECURSIVE OrdersOf(_, _)
OrdersOf(rows, latest) ==
    IF latest < 0 THEN {<<>>}
    ELSE LET now == {k \in 1..Len(rows) : rows[k].createdAt = latest}
             before == OrdersOf(rows, latest - 1)
         IN  IF now = {} THEN before
             ELSE {first \o rest : first \in ArrangementsOf(now), rest \in before}

DescOrders(rows) == OrdersOf(rows, clock)

\* LIMIT limit OFFSET offset over the ordered rows.
LimitOffset(ordered, limit, offset) ==
    [i \in 1..(IF Len(ordered) - offset < 0 THEN 0
               ELSE IF Len(ordered) - offset < limit THEN Len(ordered) - offset
               ELSE limit) |-> ordered[offset + i]]

\* The selected columns of a guestbook row left-joined with its user.
SelectEntry(row) ==
    [id |-> row.id,
     message |-> row.message,
     createdAt |-> row.createdAt,
     username |-> UserRow(row.userId).username,
     displayUsername |-> UserRow(row.userId).displayUsername,
     name |-> UserRow(row.userId).name,
     userId |-> row.userId,
     replyToId |-> row.replyToId]

\* The label with the handle taken before the display name.
AuthorLabelHandleFirst(e) == OrElse(OrElse(e.username, e.displayUsername), e.name)

\* displayUsername || username || name
AuthorLabel(e) == OrElse(OrElse(e.displayUsername, e.username), e.name)

\* select ... from guestbook left join user where guestbook.id = id limit 1
OriginalMessage(id) ==
    LET hits == SelectSeq(store, LAMBDA row : row.id = id)
    IN  IF Len(hits) = 0 THEN <<>> ELSE <<SelectEntry(hits[1])>>

\* The entry with its parent's message and author label, when it is a reply.
WithReplyInfo(entry) ==
    IF Truthy(entry.replyToId)
      THEN LET originalMessage == OriginalMessage(entry.replyToId)
           IN  entry @@
               [replyToMessage |->
                    IF Len(originalMessage) = 0 THEN UNDEFINED
                    ELSE originalMessage[1].message,
                replyToUsername |->
                    IF Len(originalMessage) = 0 THEN UNDEFINED
                    ELSE AuthorLabel(originalMessage[1])]
      ELSE entry

\* process.env.CREATOR_USERNAME?.toLowerCase()
creatorUsername == ToLowerCase(CreatorUsernameEnv)

WithCreator(entry) ==
    LET entryUsername ==
            IF Truthy(AuthorLabel(entry)) THEN ToLowerCase(AuthorLabel(entry))
            ELSE UNDEFINED
    IN  entry @@ [isCreator |-> Truthy(creatorUsername) /\ entryUsername = creatorUsername]

\* Integer division rounding down.
FloorDiv(a, b) == a \div b

\* Math.ceil(a / b)
CeilDiv(a, b) == IF a % b = 0 THEN a \div b ELSE (a \div b) + 1

\* The pagination object both read operations return.
Pagination(page, limit, total) ==
    [page |-> page,
     limit |-> limit,
     total |-> total,
     totalPages |-> CeilDiv(total, limit),
     hasNext |-> page < CeilDiv(total, limit),
     hasPrev |-> page > 1]

\* The count of the rows of the page instead of the table.
TotalCountOfPage == Len(req.entries)

\* select count(*) from guestbook
TotalCount == Len(store)

\* select count(*) from guestbook where user_id = userId
UserCount(userId) == Len(SelectSeq(store, LAMBDA row : row.userId = userId))

\* getGuestbookEntries(page, limit), up to its count query: the page query and
\* the parent lookups of its replies. The store only grows and ids are never
\* reused, so the lookups read what they would read at the page query.
getGuestbookEntriesQuery(page, limit) ==
    /\ req.phase \in {"idle", "done"}
    /\ \E ord \in DescOrders(store) :
        LET ordered == [i \in 1..Len(store) |-> SelectEntry(store[ord[i]])]
            entries == LimitOffset(ordered, limit, (page - 1) * limit)
            entriesWithReplyInfo == [i \in DOMAIN entries |-> WithReplyInfo(entries[i])]
            entriesWithCreator ==
                [i \in DOMAIN entries |-> WithCreator(entriesWithReplyInfo[i])]
        IN  req' = [kind |-> "feed", phase |-> "fetched", page |-> page,
                    limit |-> limit, entries |-> entriesWithCreator,
                    atQuery |-> Len(store)]
    /\ UNCHANGED <<store, clock, posted, emailVerified, lastPost, homeVars>>

\* getGuestbookEntries: the count query and the return.
getGuestbookEntriesCount ==
    /\ req.phase = "fetched"
    /\ req.kind = "feed"
    /\ req' = [req EXCEPT !.phase = "done"]
                @@ [pagination |-> Pagination(req.page, req.limit, TotalCount)]
    /\ UNCHANGED <<store, clock, posted, emailVerified, lastPost, homeVars>>

\* getUserPosts(userId, page, limit), up to its count query.
getUserPostsQuery(userId, page, limit) ==
    /\ req.phase \in {"idle", "done"}
    /\ LET mine == SelectSeq(store, LAMBDA row : row.userId = userId)
       IN  \E ord \in DescOrders(mine) :
            LET ordered ==
                    [i \in 1..Len(mine) |->
                        [f \in DOMAIN SelectEntry(mine[ord[i]]) \ {"replyToId"} |->
                            SelectEntry(mine[ord[i]])[f]]]
                entries == LimitOffset(ordered, limit, (page - 1) * limit)
            IN  req' = [kind |-> "user", phase |-> "fetched", page |-> page,
                        limit |-> limit, userId |-> userId,
                        entries |-> [i \in DOMAIN entries |-> WithCreator(entries[i])],
                        atQuery |-> Len(store)]
    /\ UNCHANGED <<store, clock, posted, emailVerified, lastPost, homeVars>>

\* getUserPosts: the count query and the return.
getUserPostsCount ==
    /\ req.phase = "fetched"
    /\ req.kind = "user"
    /\ req' = [req EXCEPT !.phase = "done"]
                @@ [pagination |-> Pagination(req.page, req.limit, UserCount(req.userId))]
    /\ UNCHANGED <<store, clock, posted, emailVerified, lastPost, homeVars>>

\* The posts of the feed specification: two users post, each a text of its
\* own, as a root message or as a reply to a stored or unknown id; every post
\* gets a later timestamp than the one before.
FeedPosts == {<<"u1", Text(1, 0, FALSE, FALSE)>>, <<"u2", Text(2, 0, FALSE, FALSE)>>}

FeedPost ==
    /\ Len(store) < MaxMessages
    /\ \E a \in FeedPosts, r \in {UNDEFINED, DanglingId} \cup StoredIds :
        createGuestbookEntry(a[1], a[2], r, clock + 1)
    /\ UNCHANGED <<req, homeVars>>

FeedRead ==
    \E page \in 1..MaxPage, limit \in 1..MaxLimit :
        getGuestbookEntriesQuery(page, limit)

NextFeed == FeedPost \/ FeedRead \/ getGuestbookEntriesCount

SpecFeed == InitSignedOut /\ [][NextFeed]_vars

\* The posts of the pagination specification: root messages of two users.
PagesPost ==
    /\ Len(store) < MaxMessages
    /\ \E s \in {"u1", "u2"} :
        createGuestbookEntry(s, Text(1, 0, FALSE, FALSE), UNDEFINED, clock + 1)
    /\ UNCHANGED <<req, homeVars>>

UserRead ==
    \E userId \in UserIds, page \in 1..MaxPage, limit \in 1..MaxLimit :
        getUserPostsQuery(userId, page, limit)

NextPages ==
    \/ PagesPost
    \/ FeedRead
    \/ getGuestbookEntriesCount
    \/ UserRead
    \/ getUserPostsCount

SpecPages == InitSignedOut /\ [][NextPages]_vars

\* The posts of the ordering specification: root messages of one user, each
\* with the timestamp of the one before or a later one.
TiesPost ==
    /\ Len(store) < MaxMessages
    /\ \E ts \in {clock, clock + 1} :
        createGuestbookEntry("u1", Text(1, 0, FALSE, FALSE), UNDEFINED, ts)
    /\ UNCHANGED <<req, homeVars>>

NextTies == TiesPost \/ FeedRead \/ getGuestbookEntriesCount

SpecTies == InitSignedOut /\ [][NextTies]_vars

\* ------------------------------------------------------------------ Home
Range(seq) == {seq[i] : i \in DOMAIN seq}

\* new Date(d) of a Date: a Date of the same time.
NewDate(d) == d

\* The data of the guestbook query of the page shown, undefined before its
\* first fetch.
guestbookData == guestbookCache[currentPage]

\* guestbookData?.entries || []
entries == IF guestbookData = NoData THEN <<>> ELSE guestbookData.entries

\* guestbookData?.pagination
pagination == IF guestbookData = NoData THEN NoData ELSE guestbookData.pagination

\* preferences?.ignoredUsers || []
ignoredUsers == IF preferences = NoData THEN <<>> ELSE preferences.ignoredUsers

\* The filter with the handle in place of the label.
EntryShownByHandle(entry) ==
    LET username == OrElse(entry.username, "")
    IN  ~Truthy(username) \/ username \notin Range(ignoredUsers)

\* The callback of entries.filter: the entry's label is empty or not ignored.
EntryShown(entry) ==
    LET username == OrElse(AuthorLabel(entry), "")
    IN  ~Truthy(username) \/ username \notin Range(ignoredUsers)

filteredEntries ==
    IF showIgnored THEN entries ELSE SelectSeq(entries, EntryShown)

\* The queryFn of the guestbook query, first step: getGuestbookEntries(currentPage, 50)
\* runs up to its count query.
guestbookQueryFn == getGuestbookEntriesQuery(currentPage, HomeLimit)

\* The queryFn resolves: the entries with their dates rebuilt, and the
\* pagination, become the data of the query of the page it was started for.
guestbookQueryResolved ==
    /\ req.phase = "done"
    /\ req.kind = "feed"
    /\ guestbookCache' = [guestbookCache EXCEPT ![req.page] =
          [entries |-> [i \in DOMAIN req.entries |->
                          [req.entries[i] EXCEPT !.createdAt = NewDate(@)]],
           pagination |-> req.pagination]]
    /\ stalePages' = stalePages \ {req.page}
    /\ req' = NoReq
    /\ UNCHANGED <<store, clock, posted, emailVerified, lastPost, ignoredStore,
                   session, currentPage, preferences, showIgnored, mutVars,
                   verifyVars>>

\* getUserPreferences under the viewer's session: the viewer's stored list.
getUserPreferences(viewer) == [ignoredUsers |-> ignoredStore[viewer]]

\* The preferences query, enabled for a verified session only: the first
\* fetch, and the re-fetch of an invalidated query.
preferencesQuery ==
    /\ session # NoSession
    /\ session \in emailVerified
    /\ preferences' = getUserPreferences(session)
    /\ stalePrefs' = FALSE
    /\ UNCHANGED <<store, clock, posted, emailVerified, lastPost, req, ignoredStore,
                   session, currentPage, guestbookCache, stalePages, showIgnored, updating,
                   written, verifyVars>>

\* updateIgnoredUsers(newIgnored) under the viewer's session: the whole list
\* is replaced.
updateIgnoredUsers(viewer, newIgnored) ==
    ignoredStore' = [ignoredStore EXCEPT ![viewer] = newIgnored]

\* A toggle that appends whether or not the label is in the list.
newIgnoredAppendOnly(currentIgnored, username) == Append(currentIgnored, username)

\* currentIgnored.includes(username)
isCurrentlyIgnored(currentIgnored, username) == username \in Range(currentIgnored)

\* The list handleUsernameAction computes from the snapshot it reads.
newIgnored(currentIgnored, username) ==
    IF isCurrentlyIgnored(currentIgnored, username)
      THEN SelectSeq(currentIgnored, LAMBDA u : u # username)
      ELSE Append(currentIgnored, username)

\* Home.handleUsernameAction(username, 'ignore') on the label of a shown entry,
\* up to its await: the new list is computed from the preferences snapshot and
\* handed to the mutation.
handleUsernameAction(username) ==
    LET currentIgnored == ignoredUsers
    IN  /\ updating' = updating (+) SetToBag({newIgnored(currentIgnored, username)})
        /\ UNCHANGED <<store, clock, posted, emailVerified, lastPost, req,
                       ignoredStore, session, currentPage, guestbookCache, stalePages,
                       preferences, showIgnored, stalePrefs, written, verifyVars>>

\* A mutation that adds the list it is given to the stored one.
updateIgnoredUsersMutationMerge(list) ==
    /\ BagIn(list, updating)
    /\ session # NoSession
    /\ updating' = updating (-) SetToBag({list})
    /\ updateIgnoredUsers(session, ignoredStore[session] \o list)
    /\ written' = [written EXCEPT ![session] =
                      [list |-> list, before |-> ignoredStore[session]]]
    /\ stalePrefs' = TRUE
    /\ UNCHANGED <<store, clock, posted, emailVerified, lastPost, req, session,
                   currentPage, guestbookCache, stalePages, preferences, showIgnored, verifyVars>>

\* updateIgnoredUsersMutation: a call in flight with this list reaches the
\* server. With a viewer the list is written and onSuccess invalidates the
\* preferences query; with none the call fails and nothing else happens.
updateIgnoredUsersMutation(list) ==
    /\ BagIn(list, updating)
    /\ updating' = updating (-) SetToBag({list})
    /\ IF session = NoSession
         THEN UNCHANGED <<ignoredStore, written, stalePrefs>>
         ELSE /\ updateIgnoredUsers(session, list)
              /\ written' = [written EXCEPT ![session] =
                      [list |-> list, before |-> ignoredStore[session]]]
              /\ stalePrefs' = TRUE
    /\ UNCHANGED <<store, clock, posted, emailVerified, lastPost, req, session,
                   currentPage, guestbookCache, stalePages, preferences, showIgnored, verifyVars>>

mutationSettles == \E list \in BagToSet(updating) : updateIgnoredUsersMutation(list)

\* The labels of the entries on screen.
ShownLabels == {OrElse(AuthorLabel(filteredEntries[i]), "") : i \in DOMAIN filteredEntries}

ignoreAction ==
    /\ BagCardinality(updating) < MaxInFlight
    /\ \E username \in ShownLabels : handleUsernameAction(username)

\* The "Show/Hide ignored users" button, rendered when the list is not empty.
toggleShowIgnored ==
    /\ Len(ignoredUsers) > 0
    /\ showIgnored' = ~showIgnored
    /\ UNCHANGED <<store, clock, posted, emailVerified, lastPost, req, ignoredStore,
                   session, currentPage, guestbookCache, stalePages, preferences, mutVars, verifyVars>>

\* The authors of the Home specification.
ViewAuthors == {"u1", "u2"}

\* The posts of the Home specification: root messages of two users.
ViewPost ==
    /\ Len(store) < MaxPosts
    /\ \E s \in ViewAuthors :
        createGuestbookEntry(s, Text(1, 0, FALSE, FALSE), UNDEFINED, clock + 1)
    /\ UNCHANGED <<req, homeVars>>

NextView ==
    \/ ViewPost
    \/ guestbookQueryFn
    \/ getGuestbookEntriesCount
    \/ guestbookQueryResolved
    \/ preferencesQuery
    \/ ignoreAction
    \/ mutationSettles
    \/ toggleShowIgnored

SpecView == Init /\ [][NextView]_vars

\* ------------------------------------------------------------ feed claims
Ids(page) == [i \in DOMAIN page |-> page[i].id]

\* C3: when getGuestbookEntries returns, it returns at most limit entries and
\* a total equal to the number of messages ever posted successfully, whatever
\* was posted between its page query and its count query.
C3_TotalCountsEveryPost ==
    [][(req.phase = "fetched" /\ req'.phase = "done" /\ req'.kind = "feed")
        => /\ Len(req'.entries) <= req'.limit
           /\ req'.pagination.total = posted
           /\ posted = Len(store)
      ]_vars

\* A feed request returned a full page and a total that counts a reply posted
\* after its page query.
C3_Witness ==
    /\ req.phase = "done"
    /\ req.kind = "feed"
    /\ req.pagination.total > req.atQuery
    /\ req.pagination.total = posted
    /\ Len(req.entries) = req.limit
    /\ \E i \in 1..Len(store) : i > req.atQuery /\ store[i].replyToId # NULL

\* C4: the pagination of both read operations has totalPages the least number
\* of pages of size limit that hold total entries, hasNext iff the page is
\* before the last page and hasPrev iff it is after the first.
C4_PaginationArithmetic ==
    req.phase = "done"
    => LET pg == req.pagination
       IN  /\ pg.totalPages >= 0
           /\ pg.totalPages * req.limit >= pg.total
           /\ (pg.totalPages - 1) * req.limit < pg.total
           /\ pg.hasNext = (req.page < pg.totalPages)
           /\ pg.hasPrev = (req.page > 1)
           /\ pg.page = req.page
           /\ pg.limit = req.limit

\* getUserPosts returned a page beyond the last page of an author whose
\* message count is no multiple of the page size.
C4_Witness ==
    /\ req.phase = "done"
    /\ req.kind = "user"
    /\ req.pagination.total % req.limit # 0
    /\ req.pagination.totalPages >= 1
    /\ req.page > req.pagination.totalPages
    /\ ~req.pagination.hasNext
    /\ req.pagination.hasPrev

\* The label of a user: the display name, else the handle, else the real name.
LabelOfUser(uid) ==
    IF UserRow(uid).displayUsername \notin {NULL, ""} THEN UserRow(uid).displayUsername
    ELSE IF UserRow(uid).username \notin {NULL, ""} THEN UserRow(uid).username
    ELSE UserRow(uid).name

\* C5: an entry that is a reply carries the text and the author label of its
\* immediate parent when that message is stored, and carries neither when it
\* is not; an entry that is no reply carries neither.
C5_ImmediateParentResolved ==
    (req.phase \in {"fetched", "done"} /\ req.kind = "feed")
    => \A i \in DOMAIN req.entries :
        LET e == req.entries[i]
            parents == {k \in 1..Len(store) : store[k].id = e.replyToId}
        IN  IF e.replyToId = NULL
              THEN "replyToMessage" \notin DOMAIN e /\ "replyToUsername" \notin DOMAIN e
            ELSE IF parents = {}
              THEN e.replyToMessage = UNDEFINED /\ e.replyToUsername = UNDEFINED
            ELSE \A k \in parents :
                    /\ e.replyToMessage = store[k].message
                    /\ e.replyToUsername = LabelOfUser(store[k].userId)

\* A page holds a reply whose parent is itself a reply of another author and
\* another text, and a reply whose parent is not stored.
C5_Witness ==
    /\ req.phase = "done"
    /\ req.kind = "feed"
    /\ \E i \in DOMAIN req.entries :
        \E k \in 1..Len(store) :
            /\ store[k].id = req.entries[i].replyToId
            /\ store[k].replyToId # NULL
            /\ store[k].userId = "u1"
            /\ req.entries[i].userId = "u2"
            /\ req.entries[i].replyToUsername = "Ally"
            /\ req.entries[i].replyToMessage # req.entries[i].message
    /\ \E i \in DOMAIN req.entries :
        /\ req.entries[i].replyToId = DanglingId
        /\ req.entries[i].replyToMessage = UNDEFINED

\* C6: a second getGuestbookEntries call with the page and limit of the call
\* before it, with no write since that call's page query, reads the same
\* entry ids in the same order.
C6_FeedIdempotent ==
    [][(/\ req.phase = "done" /\ req.kind = "feed"
        /\ req'.phase = "fetched" /\ req'.kind = "feed"
        /\ req'.page = req.page /\ req'.limit = req.limit
        /\ Len(store) = req.atQuery)
        => Ids(req'.entries) = Ids(req.entries)
      ]_vars

\* C7: with the ignore list applied, the visible entries are exactly the
\* entries of the fetched page whose author label is not in the viewer's
\* list, in page order; the pagination shown is the one fetched, and counts
\* the hidden entries too.
C7_IgnoreFilterNarrowsOnly ==
    ~showIgnored
    => LET keep == {k \in DOMAIN entries :
                      \A i \in DOMAIN ignoredUsers :
                          ignoredUsers[i] # LabelOfUser(entries[k].userId)}
       IN  /\ Len(filteredEntries) = Cardinality(keep)
           /\ \A k \in keep :
                filteredEntries[Cardinality({j \in keep : j <= k})] = entries[k]
           /\ guestbookData # NoData =>
                /\ pagination = guestbookData.pagination
                /\ pagination.total >= Len(entries)
                /\ pagination.limit = HomeLimit

\* The viewer ignores "Ally"; the fetched page holds a message of Ally and one
\* of bob; only bob's is visible and the total still counts both.
C7_Witness ==
    /\ ~showIgnored
    /\ ignoredUsers = <<"Ally">>
    /\ Len(entries) = 2
    /\ {entries[1].userId, entries[2].userId} = {"u1", "u2"}
    /\ Len(filteredEntries) = 1
    /\ filteredEntries[1].userId = "u2"
    /\ pagination.total = 2
    /\ Len(store) = 2

\* ------------------------------------------------------ preference store
\* The viewers of the preference specification: none, and a verified one.
PrefsSessions == {NoSession, "u1"}

\* The labels of the entries the viewer acts on.
PrefsLabels == {"Ally", "bob"}

\* The viewers and the lists of the calls made from other pages.
DirectViewers == {"u2"}

DirectLists == {<<>>, <<"bob">>, <<"Cy", "bob">>}

\* Home.handleUsernameAction(username, 'ignore') on one of the labels.
ignoreLabel ==
    /\ BagCardinality(updating) < MaxInFlight
    /\ \E username \in PrefsLabels : handleUsernameAction(username)

\* updateIgnoredUsers called from another page, under another viewer's session.
updateIgnoredUsersAny ==
    /\ \E v \in DirectViewers, list \in DirectLists :
        /\ updateIgnoredUsers(v, list)
        /\ written' = [written EXCEPT ![v] =
                          [list |-> list, before |-> ignoredStore[v]]]
    /\ UNCHANGED <<store, clock, posted, emailVerified, lastPost, req, session,
                   currentPage, guestbookCache, stalePages, preferences, showIgnored, updating,
                   stalePrefs, verifyVars>>

InitPrefs == InitServer /\ \E s \in PrefsSessions : InitHome(s)

NextPrefs == ignoreLabel \/ mutationSettles \/ preferencesQuery \/ updateIgnoredUsersAny

SpecPrefs == InitPrefs /\ [][NextPrefs]_vars

\* C11: what getUserPreferences returns for a viewer has exactly the members
\* of the list of the last updateIgnoredUsers call written for that viewer,
\* whatever that viewer's list held before and whatever was written for other
\* viewers since; a viewer never written for has the empty list.
C11_IgnoreListRoundTrip ==
    \A v \in UserIds :
        LET got == getUserPreferences(v).ignoredUsers
        IN  IF written[v] = NoData
              THEN got = <<>>
              ELSE Range(got) = Range(written[v].list)

\* The viewer's list was <<"Ally", "bob">> when the page last fetched it and
\* was then replaced by <<"bob">>, while another viewer's list is <<"Cy", "bob">>.
C11_Witness ==
    /\ session = "u1"
    /\ preferences # NoData
    /\ preferences.ignoredUsers = <<"Ally", "bob">>
    /\ written["u1"] = [list |-> <<"bob">>, before |-> <<"Ally", "bob">>]
    /\ getUserPreferences("u1").ignoredUsers = <<"bob">>
    /\ getUserPreferences("u2").ignoredUsers = <<"Cy", "bob">>

\* No label occurs twice in the list.
NoDuplicate(list) == \A i, j \in DOMAIN list : list[i] = list[j] => i = j

\* The list is the old list without the label, the rest in its order.
IsWithout(list, old, label) ==
    LET keep == {k \in DOMAIN old : old[k] # label}
    IN  /\ Len(list) = Cardinality(keep)
        /\ \A k \in keep : list[Cardinality({j \in keep : j <= k})] = old[k]

\* The list is the old list with the label after its last element.
IsWithAtEnd(list, old, label) ==
    /\ Len(list) = Len(old) + 1
    /\ \A k \in DOMAIN old : list[k] = old[k]
    /\ list[Len(list)] = label

\* C16: the list handleUsernameAction hands to the mutation is the snapshot
\* without the label when the snapshot holds the label, and the snapshot with
\* the label at its end when it does not; it holds no label twice, and a
\* second toggle of the label computed from it has the members of the snapshot.
C16_ToggleSemantics ==
    [][\A username \in PrefsLabels :
          handleUsernameAction(username)
          => \A list \in BagToSet(updating') :
                CopiesIn(list, updating') > CopiesIn(list, updating)
                => /\ IF \E k \in DOMAIN ignoredUsers : ignoredUsers[k] = username
                        THEN IsWithout(list, ignoredUsers, username)
                        ELSE IsWithAtEnd(list, ignoredUsers, username)
                   /\ NoDuplicate(ignoredUsers)
                   /\ NoDuplicate(list)
                   /\ Range(newIgnored(list, username)) = Range(ignoredUsers)
      ]_vars

\* The viewer ignored "Ally" and then "bob", and with that list fetched
\* toggled "Ally" again: the call in flight carries <<"bob">>.
C16_Witness ==
    /\ session = "u1"
    /\ preferences # NoData
    /\ preferences.ignoredUsers = <<"Ally", "bob">>
    /\ getUserPreferences("u1").ignoredUsers = <<"Ally", "bob">>
    /\ BagIn(<<"bob">>, updating)

\* C17: a call of updateIgnoredUsers that reaches the server leaves the
\* viewer's stored list equal to the list of that call, whatever was stored;
\* when that list and the list stored before it are toggles of two different
\* labels on the snapshot the page holds, the stored list has the later toggle
\* and, for the label of the earlier one, what the snapshot had.
C17_LastWriteWins ==
    [][\A list \in BagToSet(updating) :
          (session # NoSession /\ updating' = updating (-) SetToBag({list}))
          => /\ ignoredStore'[session] = list
             /\ \A a, b \in PrefsLabels :
                  (/\ a # b
                   /\ ignoredStore[session] = newIgnored(ignoredUsers, a)
                   /\ list = newIgnored(ignoredUsers, b))
                  => /\ (a \in Range(ignoredStore'[session])) = (a \in Range(ignoredUsers))
                     /\ (b \in Range(ignoredStore'[session])) = (b \notin Range(ignoredUsers))
      ]_vars

\* From the fetched empty list the viewer toggled "Ally" and "bob"; the call
\* with <<"Ally">> was written first and the call with <<"bob">> last: "Ally"
\* is not in the stored list.
C17_Witness ==
    /\ session = "u1"
    /\ preferences # NoData
    /\ preferences.ignoredUsers = <<>>
    /\ written["u1"] = [list |-> <<"bob">>, before |-> <<"Ally">>]
    /\ getUserPreferences("u1").ignoredUsers = <<"bob">>
    /\ updating = EmptyBag

\* ---------------------------------------------------- verification: Home
\* What an authClient call throws when it fails: an Error with a message, or
\* a value that is no Error.
ThrownErrors == {[isError |-> TRUE, message |-> "Invalid OTP"],
                 [isError |-> FALSE, message |-> UNDEFINED]}

\* The message of an Error, and nothing for any other value.
ErrorMessageOnly(err, fallback) == IF err.isError THEN err.message ELSE ""

\* err instanceof Error ? err.message : fallback
ErrorMessage(err, fallback) == IF err.isError THEN err.message ELSE fallback

\* The codes a viewer types.
OtpInputs == {Code("", 0), Code("", 1), Code(SignupCode, 0), Code(SignupCode, 1),
              Code(ResentCode, 0)}

\* sendVerificationOtp on the server: a new code replaces the one before.
sendVerificationOtp(u) ==
    issuedOtp' = [issuedOtp EXCEPT ![u] = IF @ = SignupCode THEN ResentCode
                                           ELSE SignupCode]

\* Whether verifyEmail accepts the code for the user: it is the one valid now.
CodeAccepted(u, code) == issuedOtp[u] # NULL /\ code = Code(issuedOtp[u], 0)

\* verifyEmail on the server, the code accepted: the user is verified and the
\* code is used up.
verifyEmail(u) ==
    /\ emailVerified' = emailVerified \cup {u}
    /\ issuedOtp' = [issuedOtp EXCEPT ![u] = NULL]

\* The verification panel is rendered and the effects of the last render ran.
PanelShown == ~effectDue /\ session # NoSession /\ session \notin emailVerified

\* An effect that leaves the panel as it is.
useEffectNothing ==
    /\ effectDue
    /\ effectDue' = FALSE
    /\ UNCHANGED <<store, clock, posted, emailVerified, lastPost, req, ignoredStore,
                   session, currentPage, guestbookCache, stalePages, preferences, showIgnored,
                   mutVars, issuedOtp, authVars, showOtpInput, otpSentDuringSignup,
                   otp, otpLoading, otpError, otpCall>>

\* Home.useEffect on [session]: it runs after the render in which the session
\* changed, before any event of the viewer is handled.
useEffect ==
    /\ effectDue
    /\ effectDue' = FALSE
    /\ IF session # NoSession /\ session \notin emailVerified
         THEN /\ otpSentDuringSignup' = TRUE
              /\ showOtpInput' = TRUE
         ELSE UNCHANGED <<otpSentDuringSignup, showOtpInput>>
    /\ UNCHANGED <<store, clock, posted, emailVerified, lastPost, req, ignoredStore,
                   session, currentPage, guestbookCache, stalePages, preferences, showIgnored,
                   mutVars, issuedOtp, authVars, otp, otpLoading, otpError, otpCall>>

\* useSession hands Home a new session object (a re-fetch of the session).
sessionRefetched ==
    /\ ~effectDue
    /\ effectDue' = TRUE
    /\ UNCHANGED <<store, clock, posted, emailVerified, lastPost, req, ignoredStore,
                   session, currentPage, guestbookCache, stalePages, preferences, showIgnored,
                   mutVars, issuedOtp, authVars, showOtpInput, otpSentDuringSignup,
                   otp, otpLoading, otpError, otpCall>>

\* The code input of the panel: onChange sets otp; disabled while loading.
setOtp ==
    /\ PanelShown
    /\ showOtpInput
    /\ ~otpLoading
    /\ \E value \in OtpInputs : otp' = value
    /\ UNCHANGED <<store, clock, posted, emailVerified, lastPost, req, ignoredStore,
                   session, currentPage, guestbookCache, stalePages, preferences, showIgnored,
                   mutVars, issuedOtp, authVars, showOtpInput, otpSentDuringSignup,
                   otpLoading, otpError, otpCall, effectDue>>

\* Home.handleResendOtp up to its await; both of its buttons are disabled
\* while loading.
handleResendOtp ==
    /\ PanelShown
    /\ ~otpLoading
    /\ otpLoading' = TRUE
    /\ otpError' = ""
    /\ otpCall' = [kind |-> "send"]
    /\ UNCHANGED <<store, clock, posted, emailVerified, lastPost, req, ignoredStore,
                   session, currentPage, guestbookCache, stalePages, preferences, showIgnored,
                   mutVars, issuedOtp, authVars, showOtpInput, otpSentDuringSignup,
                   otp, effectDue>>

\* Home.handleResendOtp from its await on: the call resolved or threw.
handleResendOtpSettles ==
    /\ otpCall.kind = "send"
    /\ \/ /\ sendVerificationOtp(session)
          /\ showOtpInput' = TRUE
          /\ otpSentDuringSignup' = FALSE
          /\ UNCHANGED otpError
       \/ /\ \E err \in ThrownErrors : otpError' = ErrorMessage(err, "Failed to send OTP")
          /\ UNCHANGED <<issuedOtp, showOtpInput, otpSentDuringSignup>>
    /\ otpLoading' = FALSE
    /\ otpCall' = NoCall
    /\ UNCHANGED <<store, clock, posted, emailVerified, lastPost, req, ignoredStore,
                   session, currentPage, guestbookCache, stalePages, preferences, showIgnored,
                   mutVars, authVars, otp, effectDue>>

\* Home.handleVerifyOtp up to its await; its button is disabled while loading
\* and while the trimmed code is empty.
handleVerifyOtp ==
    /\ PanelShown
    /\ showOtpInput
    /\ ~otpLoading
    /\ Truthy(Trim(otp).body)
    /\ otpLoading' = TRUE
    /\ otpError' = ""
    /\ otpCall' = [kind |-> "verify", otp |-> Trim(otp)]
    /\ UNCHANGED <<store, clock, posted, emailVerified, lastPost, req, ignoredStore,
                   session, currentPage, guestbookCache, stalePages, preferences, showIgnored,
                   mutVars, issuedOtp, authVars, showOtpInput, otpSentDuringSignup,
                   otp, effectDue>>

\* A submission that takes every code for the valid one.
handleVerifyOtpSettlesUnchecked ==
    /\ otpCall.kind = "verify"
    /\ verifyEmail(session)
    /\ otp' = Code("", 0)
    /\ showOtpInput' = FALSE
    /\ otpSentDuringSignup' = FALSE
    /\ effectDue' = TRUE
    /\ otpLoading' = FALSE
    /\ otpCall' = NoCall
    /\ UNCHANGED <<store, clock, posted, lastPost, req, ignoredStore, otpError,
                   session, currentPage, guestbookCache, stalePages, preferences, showIgnored,
                   mutVars, authVars>>

\* Home.handleVerifyOtp from its await on: verifyEmail resolved, and the
\* refreshed session reaches Home as a new session object; or it threw.
handleVerifyOtpSettles ==
    /\ otpCall.kind = "verify"
    /\ \/ /\ CodeAccepted(session, otpCall.otp)
          /\ verifyEmail(session)
          /\ otp' = Code("", 0)
          /\ showOtpInput' = FALSE
          /\ otpSentDuringSignup' = FALSE
          /\ effectDue' = TRUE
          /\ UNCHANGED otpError
       \/ /\ \E err \in ThrownErrors :
                otpError' = ErrorMessage(err, "Invalid verification code")
          /\ UNCHANGED <<emailVerified, issuedOtp, otp, showOtpInput,
                         otpSentDuringSignup, effectDue>>
    /\ otpLoading' = FALSE
    /\ otpCall' = NoCall
    /\ UNCHANGED <<store, clock, posted, lastPost, req, ignoredStore,
                   session, currentPage, guestbookCache, stalePages, preferences, showIgnored,
                   mutVars, authVars>>

\* ------------------------------------------------ verification: AuthForm
\* The account whose email is typed into AuthForm.
AuthUser == "u3"

\* The codes typed into AuthForm; its input is required, so never empty.
FormOtpInputs == {Code(SignupCode, 0), Code(SignupCode, 1), Code(ResentCode, 0)}

\* The "Sign In" and "Sign Up" buttons, rendered at step 'auth'.
setIsLogin ==
    /\ step = "auth"
    /\ \E value \in BOOLEAN : isLogin' = value
    /\ UNCHANGED <<store, clock, posted, emailVerified, lastPost, req, ignoredStore,
                   session, currentPage, guestbookCache, stalePages, preferences, showIgnored,
                   mutVars, issuedOtp, otpVars, step, isLoading, error,
                   usernameError, pendingVerification, formOtp, authCall,
                   onSuccessCalled>>

\* The code input of AuthForm, rendered at step 'verify'; disabled while loading.
setFormOtp ==
    /\ step = "verify"
    /\ ~isLoading
    /\ \E value \in FormOtpInputs : formOtp' = value
    /\ UNCHANGED <<store, clock, posted, emailVerified, lastPost, req, ignoredStore,
                   session, currentPage, guestbookCache, stalePages, preferences, showIgnored,
                   mutVars, issuedOtp, otpVars, isLogin, step, isLoading, error,
                   usernameError, pendingVerification, authCall, onSuccessCalled>>

\* The "Back" button, rendered at step 'verify'.
backToAuth ==
    /\ step = "verify"
    /\ step' = "auth"
    /\ UNCHANGED <<store, clock, posted, emailVerified, lastPost, req, ignoredStore,
                   session, currentPage, guestbookCache, stalePages, preferences, showIgnored,
                   mutVars, issuedOtp, otpVars, isLogin, isLoading, error,
                   usernameError, pendingVerification, formOtp, authCall,
                   onSuccessCalled>>

\* AuthForm.handleSubmit up to its await; the submit button is disabled while
\* loading. A signup with an invalid username returns before any call.
handleSubmit ==
    /\ ~isLoading
    /\ step = "verify" => formOtp # Code("", 0)
    /\ error' = ""
    /\ onSuccessCalled' = FALSE
    /\ \/ /\ step = "auth" /\ isLogin
          /\ authCall' = [kind |-> "signIn"]
          /\ isLoading' = TRUE
          /\ usernameError' = ""
       \/ /\ step = "auth" /\ ~isLogin
          /\ \E isValid \in BOOLEAN :
                IF isValid
                  THEN /\ authCall' = [kind |-> "signUp"]
                       /\ isLoading' = TRUE
                       /\ usernameError' = ""
                  ELSE /\ usernameError' = "Invalid username"
                       /\ UNCHANGED <<authCall, isLoading>>
       \/ /\ step = "verify"
          /\ authCall' = [kind |-> "verify", otp |-> formOtp]
          /\ isLoading' = TRUE
          /\ usernameError' = ""
    /\ UNCHANGED <<store, clock, posted, emailVerified, lastPost, req, ignoredStore,
                   session, currentPage, guestbookCache, stalePages, preferences, showIgnored,
                   mutVars, issuedOtp, otpVars, isLogin, step, pendingVerification,
                   formOtp>>

\* A submit that calls onSuccess whether or not the call threw.
handleSubmitSettlesUnchecked ==
    /\ authCall.kind \in {"signIn", "signUp", "verify"}
    /\ onSuccessCalled' = TRUE
    /\ isLoading' = FALSE
    /\ authCall' = NoCall
    /\ UNCHANGED <<store, clock, posted, emailVerified, lastPost, req, ignoredStore,
                   session, currentPage, guestbookCache, stalePages, preferences, showIgnored,
                   mutVars, issuedOtp, otpVars, isLogin, step, error, usernameError,
                   pendingVerification, formOtp>>

\* AuthForm.handleSubmit from its await on: the call resolved or threw.
handleSubmitSettles ==
    /\ authCall.kind \in {"signIn", "signUp", "verify"}
    /\ \/ /\ authCall.kind = "signIn"
          /\ onSuccessCalled' = TRUE
          /\ UNCHANGED <<emailVerified, issuedOtp, step, pendingVerification, error>>
       \/ /\ authCall.kind = "signUp"
          /\ AuthUser \notin emailVerified
          /\ issuedOtp' = [issuedOtp EXCEPT ![AuthUser] = SignupCode]
          /\ step' = "verify"
          /\ pendingVerification' = TRUE
          /\ UNCHANGED <<emailVerified, onSuccessCalled, error>>
       \/ /\ authCall.kind = "verify"
          /\ CodeAccepted(AuthUser, authCall.otp)
          /\ verifyEmail(AuthUser)
          /\ onSuccessCalled' = TRUE
          /\ UNCHANGED <<step, pendingVerification, error>>
       \/ /\ \E err \in ThrownErrors : error' = ErrorMessage(err, "An error occurred")
          /\ UNCHANGED <<emailVerified, issuedOtp, step, pendingVerification,
                         onSuccessCalled>>
    /\ isLoading' = FALSE
    /\ authCall' = NoCall
    /\ UNCHANGED <<store, clock, posted, lastPost, req, ignoredStore,
                   session, currentPage, guestbookCache, stalePages, preferences, showIgnored,
                   mutVars, otpVars, isLogin, usernameError, formOtp>>

\* AuthForm.handleResendOTP up to its await; its button is rendered at step
\* 'verify' and disabled while loading.
handleResendOTP ==
    /\ step = "verify"
    /\ ~isLoading
    /\ isLoading' = TRUE
    /\ error' = ""
    /\ authCall' = [kind |-> "send"]
    /\ UNCHANGED <<store, clock, posted, emailVerified, lastPost, req, ignoredStore,
                   session, currentPage, guestbookCache, stalePages, preferences, showIgnored,
                   mutVars, issuedOtp, otpVars, isLogin, step, usernameError,
                   pendingVerification, formOtp, onSuccessCalled>>

\* AuthForm.handleResendOTP from its await on.
handleResendOTPSettles ==
    /\ authCall.kind = "send"
    /\ \/ /\ sendVerificationOtp(AuthUser)
          /\ UNCHANGED error
       \/ /\ \E err \in ThrownErrors : error' = ErrorMessage(err, "Failed to resend OTP")
          /\ UNCHANGED issuedOtp
    /\ isLoading' = FALSE
    /\ authCall' = NoCall
    /\ UNCHANGED <<store, clock, posted, emailVerified, lastPost, req, ignoredStore,
                   session, currentPage, guestbookCache, stalePages, preferences, showIgnored,
                   mutVars, otpVars, isLogin, step, usernameError,
                   pendingVerification, formOtp, onSuccessCalled>>

\* The viewers of the verification specification.
VerifySessions == {NoSession, "u1", "u3"}

InitVerify == InitServer /\ \E s \in VerifySessions : InitHome(s)

NextVerify ==
    \/ useEffect
    \/ sessionRefetched
    \/ setOtp
    \/ handleResendOtp
    \/ handleResendOtpSettles
    \/ handleVerifyOtp
    \/ handleVerifyOtpSettles
    \/ setIsLogin
    \/ setFormOtp
    \/ backToAuth
    \/ handleSubmit
    \/ handleSubmitSettles
    \/ handleResendOTP
    \/ handleResendOTPSettles

SpecVerify == InitVerify /\ [][NextVerify]_vars

\* ----------------------------------------------------- verification claims
\* The verification state of the viewer's session as Home presents it.
VerificationState ==
    IF session = NoSession THEN "none"
    ELSE IF session \in emailVerified THEN "verified"
    ELSE IF showOtpInput THEN "verification-pending"
    ELSE "unverified"

\* C12: no step takes a verified user or a verified session out of verified,
\* and a step that makes a user verified is the completion of a code
\* submission, of Home or of AuthForm, whose code is the one valid for that user.
C12_VerifiedIsTerminal ==
    [][/\ \A u \in UserIds : u \in emailVerified => u \in emailVerified'
       /\ VerificationState = "verified" => VerificationState' = "verified"
       /\ \A u \in UserIds :
            (u \notin emailVerified /\ u \in emailVerified')
            => /\ issuedOtp[u] # NULL
               /\ \/ /\ u = session
                     /\ otpCall = [kind |-> "verify", otp |-> Code(issuedOtp[u], 0)]
                     /\ otpCall' = NoCall
                  \/ /\ u = AuthUser
                     /\ authCall = [kind |-> "verify", otp |-> Code(issuedOtp[u], 0)]
                     /\ authCall' = NoCall
      ]_vars

\* The viewer's account is verified and the panel of Home is gone; since the
\* verification the page was re-evaluated, a new code was requested for the
\* account and a submission of AuthForm failed.
C12_Witness ==
    /\ session = "u3"
    /\ VerificationState = "verified"
    /\ ~showOtpInput
    /\ otp = Code("", 0)
    /\ ~effectDue
    /\ issuedOtp["u3"] # NULL
    /\ step = "verify"
    /\ error # ""
    /\ authCall = NoCall

C14_ResendKeepsState ==
    [][/\ PanelShown => VerificationState = "verification-pending"
       /\ PanelShown' => VerificationState' = "verification-pending"
       /\ (PanelShown /\ ~otpLoading) => ENABLED handleResendOtp
       /\ ((otpCall.kind # "send" /\ otpCall'.kind = "send")
            \/ (otpCall.kind = "send" /\ otpCall' = NoCall))
          => /\ emailVerified' = emailVerified
             /\ VerificationState' = VerificationState
             /\ otpLoading' = (otpCall' # NoCall)
      ]_vars

\* The viewer awaits verification; a re-send from the panel succeeded and a
\* later one failed with a thrown value that is no Error.
C14_Witness ==
    /\ session = "u3"
    /\ PanelShown
    /\ VerificationState = "verification-pending"
    /\ ~otpSentDuringSignup
    /\ issuedOtp["u3"] = ResentCode
    /\ otpError = "Failed to send OTP"
    /\ ~otpLoading
    /\ otpCall = NoCall

\* ------------------------------------------------------- feed page claims
\* The stored messages created after the message, and those created no
\* earlier than it.
NewerThan(id) ==
    {k \in 1..Len(store) :
        \E m \in 1..Len(store) : store[m].id = id /\ store[k].createdAt > store[m].createdAt}

NoOlderThan(id) ==
    {k \in 1..Len(store) :
        \E m \in 1..Len(store) : store[m].id = id /\ store[k].createdAt >= store[m].createdAt}

\* C15: the page query of getGuestbookEntries(page, limit) reads the messages
\* at positions (page - 1) * limit + 1 .. page * limit of all stored messages
\* newest first, each once; and read after a completed call for another page
\* with the same limit and no write since that call's page query, it reads
\* none of that call's messages, the two pages of a two-page feed holding
\* every stored message.
C15_PagesPartitionFeed ==
    [][(req.phase \in {"idle", "done"} /\ req'.phase = "fetched" /\ req'.kind = "feed")
        => LET page == req'.page
               limit == req'.limit
               ids == Ids(req'.entries)
               left == Len(store) - (page - 1) * limit
           IN  /\ Len(ids) = IF left < 0 THEN 0 ELSE IF left < limit THEN left ELSE limit
               /\ \A i, j \in DOMAIN ids : ids[i] = ids[j] => i = j
               /\ \A k \in DOMAIN ids :
                    /\ Cardinality(NewerThan(ids[k])) < (page - 1) * limit + k
                    /\ (page - 1) * limit + k <= Cardinality(NoOlderThan(ids[k]))
               /\ (/\ req.phase = "done" /\ req.kind = "feed"
                   /\ req.limit = limit /\ req.page # page
                   /\ req.atQuery = Len(store))
                  => /\ Range(ids) \cap Range(Ids(req.entries)) = {}
                     /\ (req.pagination.totalPages = 2 /\ {req.page, page} = {1, 2})
                        => Range(ids) \cup Range(Ids(req.entries)) = StoredIds
      ]_vars

\* ------------------------------------------------------- cache of Home
\* The pages the pagination controls lead to: the numbered buttons shown, and
\* the previous and next buttons when enabled.
PageButtons ==
    IF pagination = NoData \/ ~(pagination.totalPages > 1) THEN {}
    ELSE {page \in 1..pagination.totalPages :
            \/ page = 1
            \/ page = pagination.totalPages
            \/ page - currentPage \in {-1, 0, 1}}
         \cup (IF pagination.hasPrev THEN {currentPage - 1} ELSE {})
         \cup (IF pagination.hasNext THEN {currentPage + 1} ELSE {})

\* Home.handlePageChange(page) from a pagination control.
handlePageChange ==
    /\ \E page \in PageButtons \cap (1..MaxPage) : currentPage' = page
    /\ UNCHANGED <<store, clock, posted, emailVerified, lastPost, req, ignoredStore,
                   session, guestbookCache, stalePages, preferences, showIgnored,
                   mutVars, verifyVars>>

\* A guestbook of one message more than the first page of Home holds: root
\* messages of two authors, posted one after the other.
SeedStore ==
    [i \in 1..(HomeLimit + 1) |->
        [id |-> IdOf(i),
         message |-> Trim(Text(1, 0, FALSE, FALSE)),
         userId |-> IF i % 2 = 1 THEN "u1" ELSE "u2",
         replyToId |-> NULL,
         createdAt |-> i]]

InitCache ==
    /\ store = SeedStore
    /\ clock = Len(SeedStore)
    /\ posted = Len(SeedStore)
    /\ emailVerified = {"u1", "u2"}
    /\ lastPost = NoPost
    /\ req = NoReq
    /\ ignoredStore = [v \in UserIds |-> <<>>]
    /\ issuedOtp = [u \in UserIds |-> IF u \in {"u1", "u2"} THEN NULL ELSE SignupCode]
    /\ \E s \in PrefsSessions : InitHome(s)

\* NewMessageForm submits a text that is accepted.
cacheNewMessage ==
    /\ Len(store) < Len(SeedStore) + MaxCachePosts
    /\ handleNewMessage(Text(1, 0, FALSE, FALSE))

\* NewMessageForm submits an empty text, which is rejected.
cacheEmptyMessage == handleNewMessage(Text(0, 0, FALSE, FALSE))

\* The message replied to in the cache specification: the newest seeded
\* message of the author whose label is not toggled.
CacheReplyTo == IdOf(HomeLimit)

\* The reply form of that message, when it is on screen, submits a text.
cacheReply ==
    /\ Len(store) < Len(SeedStore) + MaxCachePosts
    /\ \E i \in DOMAIN filteredEntries : filteredEntries[i].id = CacheReplyTo
    /\ handleReply(CacheReplyTo, Text(1, 0, FALSE, FALSE))

\* The label the viewer toggles in the cache specification.
CacheLabels == {"Ally"}

\* Home.handleUsernameAction(username, 'ignore'), called when no earlier call
\* is in flight.
cacheIgnore ==
    /\ updating = EmptyBag
    /\ \E username \in CacheLabels : handleUsernameAction(username)

NextCache ==
    \/ cacheNewMessage
    \/ cacheEmptyMessage
    \/ cacheReply
    \/ guestbookQueryFn
    \/ getGuestbookEntriesCount
    \/ guestbookQueryResolved
    \/ handlePageChange
    \/ preferencesQuery
    \/ cacheIgnore
    \/ mutationSettles

SpecCache == InitCache /\ [][NextCache]_vars

\* The ids of the page of the stored messages newest first, when no two
\* messages have the same timestamp: the store is in timestamp order.
IdsOfPageNow(page) ==
    LET left == Len(store) - (page - 1) * HomeLimit
        count == IF left < 0 THEN 0 ELSE IF left < HomeLimit THEN left ELSE HomeLimit
    IN  [i \in 1..count |-> store[left - i + 1].id]

\* The cached data of the page is what a fetch of the page would return now.
IsCurrentPage(page) ==
    /\ Ids(guestbookCache[page].entries) = IdsOfPageNow(page)
    /\ guestbookCache[page].pagination.total = Len(store)

\* Every page and every preference snapshot held as fresh is current.
NothingOldHeldFresh ==
    /\ \A page \in 1..MaxPage :
        (guestbookCache[page] # NoData /\ page \notin stalePages) => IsCurrentPage(page)
    /\ (preferences # NoData /\ ~stalePrefs)
        => preferences.ignoredUsers = ignoredStore[session]

\* C18: a successful post by the viewer, root message or reply, marks every
\* cached feed page stale, whatever its number; a preference update that
\* succeeds marks the preference snapshot stale; a post that fails and a
\* preference update that fails change no staleness mark and no cached data;
\* and after every step each cached page not marked stale holds the ids and
\* the total a fetch would return now, and the snapshot not marked stale holds
\* the viewer's stored list.
C18_StaleAfterWrite ==
    [][/\ (posted' = posted + 1)
            => \A page \in 1..MaxPage :
                guestbookCache[page] # NoData
                    => (page \in stalePages' /\ guestbookCache'[page] = guestbookCache[page])
       /\ (posted' = posted /\ lastPost' # lastPost)
            => /\ lastPost'.outcome # "ok"
               /\ UNCHANGED <<stalePages, stalePrefs, guestbookCache, preferences, req>>
       /\ (BagCardinality(updating') < BagCardinality(updating) /\ session # NoSession)
            => (stalePrefs' /\ written'[session] # NoData)
       /\ (BagCardinality(updating') < BagCardinality(updating) /\ session = NoSession)
            => UNCHANGED <<stalePages, stalePrefs, guestbookCache, preferences, ignoredStore>>
       /\ NothingOldHeldFresh'
      ]_vars

\* The viewer on page 2 posted with page 1 and page 2 cached, then fetched
\* page 2 again and had a post rejected: page 1 is stale and page 2 is not; and
\* the preference snapshot was fetched again after an update.
C18_Witness ==
    /\ session = "u1"
    /\ currentPage = 2
    /\ guestbookCache[1] # NoData
    /\ guestbookCache[2] # NoData
    /\ stalePages = {1}
    /\ guestbookCache[1].pagination.total = Len(SeedStore)
    /\ guestbookCache[2].pagination.total = Len(SeedStore) + 1
    /\ Len(store) = Len(SeedStore) + 1
    /\ lastPost # NoPost
    /\ lastPost.outcome # "ok"
    /\ preferences # NoData
    /\ preferences.ignoredUsers = <<"Ally">>
    /\ ~stalePrefs
====
